---- MODULE Spec2Model ----
(***************************************************************************)
(* Authentication and authorization core of the task management backend:   *)
(* AuthController (register, login, refreshToken, forgotPassword,          *)
(* resetPassword, changePassword), the authenticateToken middleware, the   *)
(* user administration routes, the User model's save hooks and the Redis   *)
(* session registry.                                                       *)
(*                                                                         *)
(* Time is in milliseconds (Date.now()); JWT iat/exp are in seconds.       *)
(***************************************************************************)
EXTENDS Integers, Sequences, FiniteSets, TLC

VARIABLES
    users,      \* the users collection: users[id] is the document with _id = id
    registry,   \* Redis: refresh_token:<id> -> [token, expireAt]
    now,        \* the wall clock, Date.now()
    held,       \* tokens handed out in responses, each with the instant it was signed at
    resp,       \* the outcome of the last request handled
    rnd,        \* number of values drawn from crypto.randomBytes so far
    relogin,    \* users whose password was replaced and who have not logged in since
    procs,      \* requests in flight, suspended at an await (concurrent specification)
    resources,  \* the collection behind requireResourceOwnership's resourceModel
    requests    \* the Map of the rateLimit closure: client id -> {count, resetTime}

vars == <<users, registry, now, held, resp, rnd, relogin, procs, resources, requests>>

----------------------------------------------------------------------------
(* Universes of request inputs *)

Emails == {"A@x.io", "a@x.io", "b@x.io"}
Passwords == {"Secret123!", "Other456!"}
NoRole == "undefined"
RoleArgs == {NoRole, "admin", "manager"}
Roles == {"admin", "manager", "user", "guest"}

\* instants at which requests arrive: 1000 and 1500 lie in the same second,
\* 2000 in the next one, 902000 is past a 15 minute lock taken at 1000 or 1500
Instants == {1000, 1500, 2000, 902000}

MaxUsers == 2       \* ids that tokens and requests may name
MaxAttempts == 6    \* cap on the loginAttempts counter
MaxRnd == 2         \* cap on the number of random tokens drawn
MaxProcs == 2       \* requests that may be in flight at once
MaxResources == 1   \* ids that resource requests may name

UserIds == 1..MaxUsers
NoDate == -1        \* an unset Date field
NoReset == 0        \* an unset passwordResetToken

----------------------------------------------------------------------------
(* Program constants *)

LockThreshold == 5
LockMs == 900000
ResetMs == 3600000
VerifyMs == 86400000        \* emailVerificationExpires: 24 hours
AccessExpSec == 604800
RefreshExpSec == 2592000
RegisterTtlSec == 2592000
RememberTtlSec == 2592000
SessionTtlSec == 604800

----------------------------------------------------------------------------
(* Library functions *)

\* String.prototype.toLowerCase on the e-mail universe
toLowerCase(e) == IF e = "A@x.io" THEN "a@x.io" ELSE e

\* bcrypt.hash: a one-way hash, never equal to the plaintext
bcryptHash(p) == <<"bcrypt", p>>

\* user.comparePassword -> bcrypt.compare(candidate, hash)
comparePassword(candidate, hash) == hash = bcryptHash(candidate)

NoToken == [typ |-> "none", userId |-> 0, email |-> "", role |-> "", iat |-> 0, exp |-> 0]

\* jwt.sign(payload, secret, {expiresIn}): an HMAC over the payload and the
\* second-granular iat/exp, so equal claims signed in the same second give
\* the same string
jwtSign(typ, id, email, role, t, lifeSec) ==
    [typ |-> typ, userId |-> id, email |-> email, role |-> role,
     iat |-> t \div 1000, exp |-> (t \div 1000) + lifeSec]

\* jwt.verify(token, secret): the secret of the other token type or a garbled
\* token fails the signature check, then exp is compared with the clock
jwtVerify(tok, typ, t) ==
    IF tok.typ # typ THEN "JsonWebTokenError"
    ELSE IF (t \div 1000) >= tok.exp THEN "TokenExpiredError"
    ELSE "ok"

\* generateTokens signing the schema's default role instead of the user's
generateTokensDefaultRole(id, user, t) ==
    [accessToken  |-> jwtSign("access", id, user.email, "user", t, AccessExpSec),
     refreshToken |-> jwtSign("refresh", id, user.email, "user", t, RefreshExpSec)]

\* AuthController.generateTokens
generateTokens(id, user, t) ==
    [accessToken  |-> jwtSign("access", id, user.email, user.role, t, AccessExpSec),
     refreshToken |-> jwtSign("refresh", id, user.email, user.role, t, RefreshExpSec)]

----------------------------------------------------------------------------
(* Redis session registry *)

NoEntry == [token |-> NoToken, setAt |-> 0, ttl |-> 0]

\* RedisService.set(key, value, ttl) -> SETEX: overwrites value and expiry
redisSet(reg, id, tok, ttlSec, t) ==
    [reg EXCEPT ![id] = [token |-> tok, setAt |-> t, ttl |-> ttlSec]]

\* RedisService.get(key): null once the ttl seconds have passed
redisGet(reg, id, t) ==
    IF reg[id].token # NoToken /\ ((t - reg[id].setAt) \div 1000) < reg[id].ttl
    THEN reg[id].token
    ELSE NoToken

\* a del whose key is not the one set wrote
redisDelOtherKey(reg, id) == reg

\* RedisService.del(key)
redisDel(reg, id) == [reg EXCEPT ![id] = NoEntry]

----------------------------------------------------------------------------
(* User model *)

\* User.findOne({email}) as an id, 0 when there is no such document
findOneByEmail(us, email) ==
    IF \E i \in 1..Len(us) : us[i].email = email
    THEN CHOOSE i \in 1..Len(us) : us[i].email = email
    ELSE 0

\* User.findByEmail: findOne({email: email.toLowerCase()}).select('+password');
\* lockUntil is declared select: false and is not part of the loaded document
findByEmail(us, email) == findOneByEmail(us, toLowerCase(email))

loadedForLogin(doc) == [doc EXCEPT !.lockUntil = NoDate]

\* User.findById as a predicate
userExists(us, id) == id \in 1..Len(us)

\* User.create with the schema defaults and the pre('save') hooks:
\* the password is hashed and passwordChangedAt is stamped
newUser(email, password, roleArg, t) ==
    [email |-> toLowerCase(email),
     password |-> bcryptHash(password),
     role |-> IF roleArg = NoRole THEN "user" ELSE roleArg,
     isActive |-> TRUE,
     loginAttempts |-> 0,
     lockUntil |-> NoDate,
     lastLoginAt |-> NoDate,
     passwordChangedAt |-> t,
     passwordResetToken |-> NoReset,
     passwordResetExpires |-> NoDate,
     isEmailVerified |-> FALSE,
     emailVerificationToken |-> TRUE,
     emailVerificationExpires |-> t + VerifyMs]

\* a save whose hook stamps passwordChangedAt whatever was modified
saveStampsAlways(doc, t) == [doc EXCEPT !.passwordChangedAt = t]

\* user.save() with password unmodified: both pre('save') hooks leave the
\* document as it is
save(doc, t) == doc

\* user.password = p; user.save(): both pre('save') hooks run
savePassword(doc, p, t) ==
    [doc EXCEPT !.password = bcryptHash(p), !.passwordChangedAt = t]

----------------------------------------------------------------------------
(* Responses *)

\* res.status(status).json({success: true, message, ...})
Res(op, status, code, id) ==
    [op |-> op, status |-> status, code |-> code, message |-> code, uid |-> id,
     sent |-> 1, forwarded |-> 0]

\* next(error): the error is handed to the error handler instead of a response
Err(op, status, code, id) ==
    [op |-> op, status |-> status, code |-> code, message |-> code, uid |-> id,
     sent |-> 0, forwarded |-> 1]

\* an error that is no AppError reaches the caller as a generic failure; err
\* is kept in code for the traces
errorHandler(op, err, id) == Err(op, 500, err, id)

Out(us, reg, toks, rl, res) ==
    [users |-> us, registry |-> reg, tokens |-> toks, relogin |-> rl, res |-> res]

\* ids of resources and of rate-limited clients (req.ip)
ResourceIds == 1..MaxResources
Clients == {"10.0.0.1", "10.0.0.2"}

\* findById(resourceId) = null
NoResource == [exists |-> FALSE, assignedToId |-> 0, createdById |-> 0]

\* requests.get(id) = undefined
NoWindow == [count |-> 0, resetTime |-> NoDate]

----------------------------------------------------------------------------
(* middleware/auth: authenticateToken *)

\* TokenExpiredError is a subclass of JsonWebTokenError
isJsonWebTokenError(e) == e \in {"JsonWebTokenError", "TokenExpiredError"}
isTokenExpiredError(e) == e = "TokenExpiredError"

\* the catch block of authenticateToken: the instanceof tests in their order
authCatch(e) ==
    IF isJsonWebTokenError(e) THEN Err("auth", 401, "INVALID_TOKEN", 0)
    ELSE IF isTokenExpiredError(e) THEN Err("auth", 401, "TOKEN_EXPIRED", 0)
    ELSE errorHandler("auth", e, 0)

\* the password epoch test: passwordChangedAt in whole seconds against iat
passwordChangedAfter(doc, tok) ==
    /\ doc.passwordChangedAt # NoDate
    /\ tok.iat < (doc.passwordChangedAt \div 1000)

\* authenticateToken testing the password epoch before isActive
authenticateTokenEpochFirst(us, tok, t) ==
    IF tok = NoToken THEN Err("auth", 401, "UNAUTHORIZED", 0)
    ELSE IF jwtVerify(tok, "access", t) # "ok" THEN authCatch(jwtVerify(tok, "access", t))
    ELSE IF ~userExists(us, tok.userId) THEN Err("auth", 401, "USER_NOT_FOUND", tok.userId)
    ELSE IF passwordChangedAfter(us[tok.userId], tok)
         THEN Err("auth", 401, "PASSWORD_CHANGED", tok.userId)
    ELSE IF ~us[tok.userId].isActive THEN Err("auth", 401, "ACCOUNT_DEACTIVATED", tok.userId)
    ELSE [op |-> "auth", status |-> 200, code |-> "OK", message |-> "OK",
          uid |-> tok.userId, sent |-> 0, forwarded |-> 0]

\* authenticateToken without the isActive test
authenticateTokenSkipsActive(us, tok, t) ==
    IF tok = NoToken THEN Err("auth", 401, "UNAUTHORIZED", 0)
    ELSE IF jwtVerify(tok, "access", t) # "ok" THEN authCatch(jwtVerify(tok, "access", t))
    ELSE IF ~userExists(us, tok.userId) THEN Err("auth", 401, "USER_NOT_FOUND", tok.userId)
    ELSE IF passwordChangedAfter(us[tok.userId], tok)
         THEN Err("auth", 401, "PASSWORD_CHANGED", tok.userId)
    ELSE [op |-> "auth", status |-> 200, code |-> "OK", message |-> "OK",
          uid |-> tok.userId, sent |-> 0, forwarded |-> 0]

\* authenticateToken on the bearer token tok (NoToken: no Authorization header)
\* against the users collection us at time t; status 200 stands for next()
authenticateToken(us, tok, t) ==
    IF tok = NoToken THEN Err("auth", 401, "UNAUTHORIZED", 0)
    ELSE IF jwtVerify(tok, "access", t) # "ok" THEN authCatch(jwtVerify(tok, "access", t))
    ELSE IF ~userExists(us, tok.userId) THEN Err("auth", 401, "USER_NOT_FOUND", tok.userId)
    ELSE IF ~us[tok.userId].isActive THEN Err("auth", 401, "ACCOUNT_DEACTIVATED", tok.userId)
    ELSE IF passwordChangedAfter(us[tok.userId], tok)
         THEN Err("auth", 401, "PASSWORD_CHANGED", tok.userId)
    ELSE [op |-> "auth", status |-> 200, code |-> "OK", message |-> "OK",
          uid |-> tok.userId, sent |-> 0, forwarded |-> 0]

\* optionalAuth: the identity attached to the request (0: none); every
\* failure, and every error thrown, ends in next() without an identity
optionalAuth(us, tok, t) ==
    IF tok = NoToken THEN 0
    ELSE IF jwtVerify(tok, "access", t) # "ok" THEN 0
    ELSE IF userExists(us, tok.userId) /\ us[tok.userId].isActive THEN tok.userId
    ELSE 0

\* a req.user whose role is the role claim of the token
reqUserFromClaims(us, tok) == [us[tok.userId] EXCEPT !.role = tok.role]

\* req.user = user: the document authenticateToken loaded with findById
reqUser(us, tok) == us[tok.userId]

\* the users as the middleware after authenticateToken see them: the caller
\* through req.user
withReqUser(us, tok) == [us EXCEPT ![tok.userId] = reqUser(us, tok)]

\* a role test that lets an admin through whatever the allow-list
requireRoleAdminPasses(us, id, roles) == us[id].role = "admin" \/ us[id].role \in roles

\* roles.includes(req.user.role) on the user attached by authenticateToken
requireRole(us, id, roles) == us[id].role \in roles

\* the middleware requireRole(...roles) returns; id = 0: no req.user.
\* status 200 stands for next()
requireRoleMiddleware(us, id, roles) ==
    IF id = 0 THEN Err("requireRole", 401, "AUTHENTICATION_REQUIRED", 0)
    ELSE IF ~requireRole(us, id, roles)
         THEN Err("requireRole", 403, "INSUFFICIENT_PERMISSIONS", id)
    ELSE [op |-> "requireRole", status |-> 200, code |-> "OK", message |-> "OK",
          uid |-> id, sent |-> 0, forwarded |-> 0]

requireAdmin == {"admin"}
requireManager == {"admin", "manager"}

\* permission strings a route may require
Permissions == {"read", "write", "delete", "manage"}

\* hasPermission with a manager granted read only
hasPermissionManagerReads(role, permission) ==
    IF role = "admin" THEN TRUE
    ELSE IF role = "manager" /\ permission \in {"read"} THEN TRUE
    ELSE IF role = "user" /\ permission = "read" THEN TRUE
    ELSE FALSE

\* userSchema.methods.hasPermission, on the role of the document
hasPermission(role, permission) ==
    IF role = "admin" THEN TRUE
    ELSE IF role = "manager" /\ permission \in {"read", "write"} THEN TRUE
    ELSE IF role = "user" /\ permission = "read" THEN TRUE
    ELSE FALSE

\* the middleware requirePermission(permission) returns; id = 0: no req.user.
\* The message of the 403 names the required permission
requirePermission(us, id, permission) ==
    IF id = 0 THEN Err("requirePermission", 401, "AUTHENTICATION_REQUIRED", 0)
    ELSE IF ~hasPermission(us[id].role, permission)
         THEN [Err("requirePermission", 403, "INSUFFICIENT_PERMISSIONS", id)
                 EXCEPT !.message = permission]
    ELSE [op |-> "requirePermission", status |-> 200, code |-> "OK", message |-> "OK",
          uid |-> id, sent |-> 0, forwarded |-> 0]

\* what requireResourceOwnership leaves: the error forwarded or next(), and
\* the id of the resource attached as req.resource (0: none)
Owned(res, rid) == [res |-> res, resource |-> rid]

\* resourceModel.findById(rid)
findResource(rs, rid) == IF rid \in DOMAIN rs THEN rs[rid] ELSE NoResource

\* requireResourceOwnership with an owner test that looks at the creator only
requireResourceOwnershipCreatorOnly(us, rs, id, rid) ==
    IF id = 0 THEN Owned(Err("ownership", 401, "AUTHENTICATION_REQUIRED", 0), 0)
    ELSE IF rid = 0 THEN Owned(Err("ownership", 400, "MISSING_RESOURCE_ID", id), 0)
    ELSE IF ~findResource(rs, rid).exists
         THEN Owned(Err("ownership", 404, "RESOURCE_NOT_FOUND", id), 0)
    ELSE IF us[id].role = "admin"
         THEN Owned([op |-> "ownership", status |-> 200, code |-> "OK", message |-> "OK",
                     uid |-> id, sent |-> 0, forwarded |-> 0], rid)
    ELSE IF findResource(rs, rid).createdById = id
         THEN Owned([op |-> "ownership", status |-> 200, code |-> "OK", message |-> "OK",
                     uid |-> id, sent |-> 0, forwarded |-> 0], rid)
    ELSE Owned(Err("ownership", 403, "INSUFFICIENT_PERMISSIONS", id), 0)

\* requireResourceOwnership(resourceModel) for the user id attached to the
\* request (0: none) and the resource id rid of the request (0: none given);
\* assignedToId = 0 is an unset assignee
requireResourceOwnership(us, rs, id, rid) ==
    IF id = 0 THEN Owned(Err("ownership", 401, "AUTHENTICATION_REQUIRED", 0), 0)
    ELSE IF rid = 0 THEN Owned(Err("ownership", 400, "MISSING_RESOURCE_ID", id), 0)
    ELSE IF ~findResource(rs, rid).exists
         THEN Owned(Err("ownership", 404, "RESOURCE_NOT_FOUND", id), 0)
    ELSE IF us[id].role = "admin"
         THEN Owned([op |-> "ownership", status |-> 200, code |-> "OK", message |-> "OK",
                     uid |-> id, sent |-> 0, forwarded |-> 0], rid)
    ELSE LET resource == findResource(rs, rid)
             owner == IF resource.assignedToId # 0 THEN resource.assignedToId
                      ELSE resource.createdById
         IN IF owner = id
            THEN Owned([op |-> "ownership", status |-> 200, code |-> "OK", message |-> "OK",
                        uid |-> id, sent |-> 0, forwarded |-> 0], rid)
            ELSE Owned(Err("ownership", 403, "INSUFFICIENT_PERMISSIONS", id), 0)

----------------------------------------------------------------------------
(* middleware/auth: rateLimit *)

\* Math.ceil(ms / 1000)
ceilSeconds(ms) == (ms + 999) \div 1000

\* the 429 response, sent by the middleware itself
TooMany(retryAfter) ==
    [op |-> "rateLimit", status |-> 429, code |-> "RATE_LIMIT_EXCEEDED",
     message |-> "Too many requests, please try again later", uid |-> 0,
     sent |-> 1, forwarded |-> 0, retryAfter |-> retryAfter]

\* next(): the request goes on to the route's handler
Passed == [op |-> "rateLimit", status |-> 200, code |-> "OK", message |-> "OK", uid |-> 0,
           sent |-> 0, forwarded |-> 0, retryAfter |-> 0]

\* the loop that deletes every entry with now > resetTime
cleanUp(reqs, t) ==
    [c \in DOMAIN reqs |-> IF reqs[c] # NoWindow /\ t > reqs[c].resetTime
                           THEN NoWindow ELSE reqs[c]]

\* a limiter that rejects only once the count is past maxRequests
rateLimitPastCeiling(reqs, id, t, maxRequests, windowMs) ==
    LET cleaned == cleanUp(reqs, t)
        clientRequests == cleaned[id]
    IN IF clientRequests = NoWindow \/ t > clientRequests.resetTime
       THEN [requests |-> [cleaned EXCEPT ![id] = [count |-> 1, resetTime |-> t + windowMs]],
             res |-> Passed]
       ELSE IF clientRequests.count > maxRequests
       THEN [requests |-> cleaned,
             res |-> TooMany(ceilSeconds(clientRequests.resetTime - t))]
       ELSE [requests |-> [cleaned EXCEPT ![id].count = @ + 1], res |-> Passed]

\* the middleware rateLimit(maxRequests, windowMs) returns, for the Map reqs
\* of its closure, the client id and Date.now() = t: the Map it leaves and
\* its outcome. The middleware has no await: it runs from start to end
\* without another request in between
rateLimit(reqs, id, t, maxRequests, windowMs) ==
    LET cleaned == cleanUp(reqs, t)
        clientRequests == cleaned[id]
    IN IF clientRequests = NoWindow \/ t > clientRequests.resetTime
       THEN [requests |-> [cleaned EXCEPT ![id] = [count |-> 1, resetTime |-> t + windowMs]],
             res |-> Passed]
       ELSE IF clientRequests.count >= maxRequests
       THEN [requests |-> cleaned,
             res |-> TooMany(ceilSeconds(clientRequests.resetTime - t))]
       ELSE [requests |-> [cleaned EXCEPT ![id].count = @ + 1], res |-> Passed]

\* const authRateLimit = rateLimit(5, 15 * 60 * 1000), one closure shared by
\* register, login, resend-verification and forgot-password
AuthMaxRequests == 5
AuthWindowMs == 900000
authRateLimit(reqs, id, t) == rateLimit(reqs, id, t, AuthMaxRequests, AuthWindowMs)

----------------------------------------------------------------------------
(* AuthController *)

\* register: findOne, create, generateTokens, redis set
registerOut(email, password, roleArg) ==
    IF findOneByEmail(users, toLowerCase(email)) # 0
    THEN Out(users, registry, {}, relogin, Err("register", 409, "USER_EXISTS", 0))
    ELSE LET id == Len(users) + 1
             user == newUser(email, password, roleArg, now)
             toks == generateTokens(id, user, now)
         IN Out(Append(users, user),
                redisSet(registry, id, toks.refreshToken, RegisterTtlSec, now),
                {toks.accessToken, toks.refreshToken},
                relogin \ {id},
                Res("register", 201, "OK", id))

\* a count that starts again once the lock has run out
countAttemptAfterLock(us, id) ==
    IF us[id].lockUntil # NoDate /\ us[id].lockUntil <= now THEN 1
    ELSE us[id].loginAttempts + 1

\* user.loginAttempts = (user.loginAttempts || 0) + 1
countAttempt(us, id) == us[id].loginAttempts + 1

\* the wrong-password branch locking only past the fifth attempt
failedLoginPastThreshold(us, id, doc) ==
    LET n == doc.loginAttempts + 1 IN
    IF n > LockThreshold
    THEN Out([us EXCEPT ![id].loginAttempts = n, ![id].lockUntil = now + LockMs],
             registry, {}, relogin, Err("login", 423, "ACCOUNT_LOCKED", id))
    ELSE Out([us EXCEPT ![id].loginAttempts = n],
             registry, {}, relogin, Err("login", 401, "INVALID_CREDENTIALS", id))

\* the wrong-password branch of login: count the attempt, lock from the fifth on
failedLogin(us, id, doc) ==
    LET n == countAttempt(us, id) IN
    IF n >= LockThreshold
    THEN Out([us EXCEPT ![id] = save([@ EXCEPT !.loginAttempts = n,
                                               !.lockUntil = now + LockMs], now)],
             registry, {}, relogin, Err("login", 423, "ACCOUNT_LOCKED", id))
    ELSE Out([us EXCEPT ![id] = save([@ EXCEPT !.loginAttempts = n], now)],
             registry, {}, relogin, Err("login", 401, "INVALID_CREDENTIALS", id))

\* the lock test of login, on the document as loaded
isLocked(doc, t) == doc.lockUntil # NoDate /\ doc.lockUntil > t

\* updateLastLogin leaving the lock in place
updateLastLoginKeepsLock(doc, t) ==
    [doc EXCEPT !.lastLoginAt = t, !.loginAttempts = 0]

\* user.updateLastLogin(), after login has reset the counters
updateLastLogin(doc, t) ==
    [doc EXCEPT !.lastLoginAt = t, !.loginAttempts = 0, !.lockUntil = NoDate]

\* login
loginOut(email, password, rememberMe) ==
    LET id == findByEmail(users, email) IN
    IF id = 0
    THEN Out(users, registry, {}, relogin, Err("login", 401, "INVALID_CREDENTIALS", 0))
    ELSE LET user == loadedForLogin(users[id]) IN
         IF ~user.isActive
         THEN Out(users, registry, {}, relogin, Err("login", 401, "ACCOUNT_DEACTIVATED", id))
         ELSE IF ~comparePassword(password, user.password)
         THEN failedLogin(users, id, user)
         ELSE IF isLocked(user, now)
         THEN Out(users, registry, {}, relogin, Err("login", 423, "ACCOUNT_LOCKED", id))
         ELSE LET toks == generateTokens(id, user, now)
                  ttl == IF rememberMe THEN RememberTtlSec ELSE SessionTtlSec
              IN Out([users EXCEPT ![id] = save(updateLastLogin(users[id], now), now)],
                     redisSet(registry, id, toks.refreshToken, ttl, now),
                     {toks.accessToken, toks.refreshToken},
                     relogin \ {id},
                     Res("login", 200, "OK", id))

\* the registry test without the comparison with the presented token
storedTokenPresent(reg, tok, t) ==
    redisGet(reg, tok.userId, t) # NoToken

\* the registry test of refreshToken
storedTokenMatches(reg, tok, t) ==
    redisGet(reg, tok.userId, t) # NoToken /\ redisGet(reg, tok.userId, t) = tok

\* refreshToken on the users us and registry reg
refreshTokenIn(us, reg, rl, tok, t) ==
    IF tok = NoToken
    THEN Out(us, reg, {}, rl, Err("refresh", 400, "REFRESH_TOKEN_REQUIRED", 0))
    ELSE IF jwtVerify(tok, "refresh", t) # "ok"
    THEN Out(us, reg, {}, rl, errorHandler("refresh", jwtVerify(tok, "refresh", t), 0))
    ELSE IF ~storedTokenMatches(reg, tok, t)
    THEN Out(us, reg, {}, rl, Err("refresh", 401, "INVALID_REFRESH_TOKEN", tok.userId))
    ELSE IF ~userExists(us, tok.userId) \/ ~us[tok.userId].isActive
    THEN Out(us, reg, {}, rl, Err("refresh", 401, "USER_NOT_FOUND", tok.userId))
    ELSE LET toks == generateTokens(tok.userId, us[tok.userId], t)
         IN Out(us,
                redisSet(reg, tok.userId, toks.refreshToken, RegisterTtlSec, t),
                {toks.accessToken, toks.refreshToken},
                rl,
                Res("refresh", 200, "OK", tok.userId))

refreshTokenOut(tok) == refreshTokenIn(users, registry, relogin, tok, now)

\* logout that refuses a refresh token which is not the stored one
logoutStoredOnly(us, reg, rl, tok, refreshToken, t) ==
    LET a == authenticateToken(us, tok, t) IN
    IF a.status # 200 THEN Out(us, reg, {}, rl, a)
    ELSE IF refreshToken # NoToken /\ ~storedTokenMatches(reg, refreshToken, t)
         THEN Out(us, reg, {}, rl, Err("logout", 401, "INVALID_REFRESH_TOKEN", a.uid))
    ELSE IF refreshToken # NoToken
         THEN Out(us, redisDel(reg, a.uid), {}, rl, Res("logout", 200, "OK", a.uid))
    ELSE Out(us, reg, {}, rl, Res("logout", 200, "OK", a.uid))

\* router.post('/logout', authenticateToken, ..., logout) on the users us and
\* registry reg: the entry of the authenticated user is deleted when the
\* body carries a refresh token, whichever token that is
logout(us, reg, rl, tok, refreshToken, t) ==
    LET a == authenticateToken(us, tok, t) IN
    IF a.status # 200 THEN Out(us, reg, {}, rl, a)
    ELSE IF refreshToken # NoToken
         THEN Out(us, redisDel(reg, a.uid), {}, rl, Res("logout", 200, "OK", a.uid))
    ELSE Out(us, reg, {}, rl, Res("logout", 200, "OK", a.uid))

logoutOut(tok, refreshToken) == logout(users, registry, relogin, tok, refreshToken, now)

\* forgotPassword: the branch for an unknown e-mail sends its response and
\* falls through to the second test, which forwards a 404 error
forgotPasswordOut(email) ==
    LET id == findOneByEmail(users, toLowerCase(email))
        passwordResetToken == rnd + 1
    IN IF id = 0
       THEN Out(users, registry, {}, relogin,
                [op |-> "forgot", status |-> 200, code |-> "OK",
                 message |-> "If an account with that email exists, a password reset link has been sent",
                 uid |-> 0, sent |-> 1, forwarded |-> 1])
       ELSE Out([users EXCEPT ![id] = save([@ EXCEPT
                                  !.passwordResetToken = passwordResetToken,
                                  !.passwordResetExpires = now + ResetMs], now)],
                registry, {}, relogin,
                [op |-> "forgot", status |-> 200, code |-> "OK",
                 message |-> "Password reset token sent to email",
                 uid |-> id, sent |-> 1, forwarded |-> 0])

\* User.findOne({emailVerificationToken: token, emailVerificationExpires:
\* {$gt: new Date()}}); token i stands for the random string made for user i
findByVerificationToken(us, token, t) ==
    IF /\ token \in 1..Len(us)
       /\ us[token].emailVerificationToken
       /\ us[token].emailVerificationExpires > t
    THEN token ELSE 0

\* verifyEmail
verifyEmailOut(token) ==
    LET id == findByVerificationToken(users, token, now) IN
    IF id = 0
    THEN Out(users, registry, {}, relogin,
             Err("verifyEmail", 400, "INVALID_VERIFICATION_TOKEN", 0))
    ELSE Out([users EXCEPT ![id] = save([@ EXCEPT !.isEmailVerified = TRUE,
                                                  !.emailVerificationToken = FALSE,
                                                  !.emailVerificationExpires = NoDate], now)],
             registry, {}, relogin, Res("verifyEmail", 200, "OK", id))

\* the lookup by reset token without the passwordResetExpires condition
findByResetTokenAnyAge(us, token, t) ==
    IF \E i \in 1..Len(us) : us[i].passwordResetToken = token
    THEN CHOOSE i \in 1..Len(us) : us[i].passwordResetToken = token
    ELSE 0

\* User.findOne({passwordResetToken: token, passwordResetExpires: {$gt: now}})
findByResetToken(us, token, t) ==
    IF \E i \in 1..Len(us) : us[i].passwordResetToken = token /\ us[i].passwordResetExpires > t
    THEN CHOOSE i \in 1..Len(us) :
            us[i].passwordResetToken = token /\ us[i].passwordResetExpires > t
    ELSE 0

\* resetPassword; delFails: the redis del after the save throws
resetPasswordOut(token, password, delFails) ==
    LET id == findByResetToken(users, token, now) IN
    IF id = 0
    THEN Out(users, registry, {}, relogin, Err("reset", 400, "INVALID_RESET_TOKEN", 0))
    ELSE LET saved == [users EXCEPT ![id] =
                          [savePassword(users[id], password, now) EXCEPT
                              !.passwordResetToken = NoReset,
                              !.passwordResetExpires = NoDate]]
         IN IF delFails
            THEN Out(saved, registry, {}, relogin \cup {id}, errorHandler("reset", "RedisError", id))
            ELSE Out(saved, redisDel(registry, id), {}, relogin \cup {id},
                     Res("reset", 200, "OK", id))

\* router.post('/change-password', authenticateToken, ..., changePassword);
\* delFails: the redis del after the save throws
changePasswordOut(tok, currentPassword, newPassword, delFails) ==
    LET a == authenticateToken(users, tok, now) IN
    IF a.status # 200 THEN Out(users, registry, {}, relogin, a)
    ELSE LET id == a.uid IN
         IF ~comparePassword(currentPassword, users[id].password)
         THEN Out(users, registry, {}, relogin,
                  Err("changePassword", 400, "INCORRECT_CURRENT_PASSWORD", id))
         ELSE LET saved == [users EXCEPT ![id] = savePassword(users[id], newPassword, now)]
              IN IF delFails
                 THEN Out(saved, registry, {}, relogin \cup {id},
                          errorHandler("changePassword", "RedisError", id))
                 ELSE Out(saved, redisDel(registry, id), {}, relogin \cup {id},
                          Res("changePassword", 200, "OK", id))

----------------------------------------------------------------------------
(* routes/users *)

ActiveArgs == {"undefined", "true", "false"}

\* the updateData of router.put('/:id') applied by findByIdAndUpdate
applyUpdate(doc, roleArg, activeArg) ==
    [doc EXCEPT !.role = IF roleArg # NoRole THEN roleArg ELSE @,
                !.isActive = IF activeArg = "undefined" THEN @ ELSE activeArg = "true"]

\* router.use(authenticateToken); router.put('/:id', requireManager, ...)
updateUserOut(tok, target, roleArg, activeArg) ==
    LET a == authenticateToken(users, tok, now) IN
    IF a.status # 200 THEN Out(users, registry, {}, relogin, a)
    ELSE IF requireRoleMiddleware(withReqUser(users, tok), a.uid, requireManager).status # 200
    THEN Out(users, registry, {}, relogin,
             Err("updateUser", 403, "INSUFFICIENT_PERMISSIONS", a.uid))
    ELSE IF ~userExists(users, target)
    THEN Out(users, registry, {}, relogin, Res("updateUser", 404, "User not found", target))
    ELSE Out([users EXCEPT ![target] = applyUpdate(users[target], roleArg, activeArg)],
             registry, {}, relogin, Res("updateUser", 200, "OK", target))

\* router.delete('/:id', requireAdmin, ...): soft deactivation
deactivateUserOut(tok, target) ==
    LET a == authenticateToken(users, tok, now) IN
    IF a.status # 200 THEN Out(users, registry, {}, relogin, a)
    ELSE IF requireRoleMiddleware(withReqUser(users, tok), a.uid, requireAdmin).status # 200
    THEN Out(users, registry, {}, relogin,
             Err("deactivateUser", 403, "INSUFFICIENT_PERMISSIONS", a.uid))
    ELSE IF ~userExists(users, target)
    THEN Out(users, registry, {}, relogin, Res("deactivateUser", 404, "User not found", target))
    ELSE Out([users EXCEPT ![target].isActive = FALSE],
             registry, {}, relogin, Res("deactivateUser", 200, "OK", target))

\* updateProfile: role and isActive are deleted from the updates before
\* findByIdAndUpdate, so neither argument reaches the document
profileUpdates(roleArg, activeArg) == [role |-> NoRole, isActive |-> "undefined"]

\* router.put('/profile', authenticateToken, ..., updateProfile)
updateProfileOut(tok, roleArg, activeArg) ==
    LET a == authenticateToken(users, tok, now) IN
    IF a.status # 200 THEN Out(users, registry, {}, relogin, a)
    ELSE Out([users EXCEPT ![a.uid] =
                 applyUpdate(users[a.uid], profileUpdates(roleArg, activeArg).role,
                             profileUpdates(roleArg, activeArg).isActive)],
             registry, {}, relogin, Res("updateProfile", 200, "OK", a.uid))

----------------------------------------------------------------------------
(* The sequential specification: one request is handled at a time *)

NoToks == [accessToken |-> NoToken, refreshToken |-> NoToken]

\* a free slot for a request
Idle == [op |-> "idle"]

\* the local variables of a handler, before it has assigned any
Locals == [op |-> "", pc |-> "", email |-> "", password |-> "", newPassword |-> "",
           roleArg |-> "", tok |-> NoToken, id |-> 0, role |-> "", attempts |-> 0,
           toks |-> NoToks]

NoResp == [op |-> "none", status |-> 0, code |-> "", message |-> "", uid |-> 0,
           sent |-> 0, forwarded |-> 0]

\* the servers start with empty collections, registry and rate limit Map
InitStore ==
    /\ users = << >>
    /\ registry = [i \in UserIds |-> NoEntry]
    /\ now = 1000
    /\ held = {}
    /\ resp = NoResp
    /\ rnd = 0
    /\ relogin = {}
    /\ procs = [p \in 1..MaxProcs |-> Idle]
    /\ requests = [c \in Clients |-> NoWindow]

Init ==
    /\ InitStore
    /\ resources = [r \in ResourceIds |-> NoResource]

\* the tokens a client can put into a request
Presentable == {h.tok : h \in held} \cup {NoToken}

\* what a handler that has run to completion leaves
Handled(o) ==
    /\ users' = o.users
    /\ registry' = o.registry
    /\ held' = held \cup {[tok |-> k, at |-> now] : k \in o.tokens}
    /\ relogin' = o.relogin
    /\ resp' = o.res

\* the state after a request of a client whose window has room
Apply(o) ==
    /\ Handled(o)
    /\ UNCHANGED <<resources, requests, now, procs>>

\* the state after a request of client c to a route behind authRateLimit
\* whose handler leaves o
Limited(c, o) ==
    /\ requests' = authRateLimit(requests, c, now).requests
    /\ IF authRateLimit(requests, c, now).res.status = 429
       THEN /\ resp' = authRateLimit(requests, c, now).res
            /\ UNCHANGED <<users, registry, held, relogin>>
       ELSE Handled(o)
    /\ UNCHANGED <<resources, now, procs, rnd>>

\* Each action handles one request whose inputs are drawn from the given sets.

Register(E, P, R) ==
    \E e \in E, p \in P, r \in R :
        /\ Len(users) < MaxUsers
        /\ Apply(registerOut(e, p, r))
        /\ UNCHANGED rnd

\* cap bounds the loginAttempts counter a failed login may reach
Login(E, P, RM, cap) ==
    \E e \in E, p \in P, rememberMe \in RM :
        /\ \A i \in 1..Len(users) :
              loginOut(e, p, rememberMe).users[i].loginAttempts <= cap
        /\ Apply(loginOut(e, p, rememberMe))
        /\ UNCHANGED rnd

RefreshToken ==
    \E k \in Presentable :
        /\ Apply(refreshTokenOut(k))
        /\ UNCHANGED rnd

ForgotPassword(E) ==
    \E e \in E :
        /\ rnd < MaxRnd
        /\ Apply(forgotPasswordOut(e))
        /\ rnd' = rnd + 1

ResetPassword(P, DF) ==
    \E token \in 1..MaxRnd, p \in P, delFails \in DF :
        /\ Apply(resetPasswordOut(token, p, delFails))
        /\ UNCHANGED rnd

Logout ==
    \E k \in Presentable, r \in Presentable :
        /\ Apply(logoutOut(k, r))
        /\ UNCHANGED rnd

ChangePassword(P, DF) ==
    \E k \in Presentable, cur \in P, new \in P, delFails \in DF :
        /\ Apply(changePasswordOut(k, cur, new, delFails))
        /\ UNCHANGED rnd

UpdateUser(R, A) ==
    \E k \in Presentable, target \in UserIds, r \in R, a \in A :
        /\ Apply(updateUserOut(k, target, r, a))
        /\ UNCHANGED rnd

UpdateProfile(R, A) ==
    \E k \in Presentable, r \in R, a \in A :
        /\ Apply(updateProfileOut(k, r, a))
        /\ UNCHANGED rnd

DeactivateUser ==
    \E k \in Presentable, target \in UserIds :
        /\ Apply(deactivateUserOut(k, target))
        /\ UNCHANGED rnd

\* a request to a route guarded by authenticateToken alone
Authenticate ==
    \E k \in Presentable :
        /\ resp' = authenticateToken(users, k, now)
        /\ UNCHANGED <<resources, requests, users, registry, now, held, rnd, relogin, procs>>

\* a request to a route behind optionalAuth: the response names the identity
\* the handler sees
OptionalAuth ==
    \E k \in Presentable :
        /\ resp' = [op |-> "optionalAuth", status |-> 200, code |-> "OK", message |-> "OK",
                    uid |-> optionalAuth(users, k, now), sent |-> 0, forwarded |-> 0]
        /\ UNCHANGED <<resources, requests, users, registry, now, held, rnd, relogin, procs>>

\* a request to a route behind authenticateToken and requireResourceOwnership
AccessResource ==
    \E k \in Presentable, rid \in 0..(MaxResources + 1) :
        /\ resp' = IF authenticateToken(users, k, now).status # 200
                   THEN authenticateToken(users, k, now)
                   ELSE requireResourceOwnership(withReqUser(users, k), resources,
                            authenticateToken(users, k, now).uid, rid).res
        /\ UNCHANGED <<users, registry, now, held, rnd, relogin, procs, resources, requests>>

\* a request to a route behind authenticateToken and requirePermission
RequirePermission ==
    \E k \in Presentable, p \in Permissions :
        /\ resp' = IF authenticateToken(users, k, now).status # 200
                   THEN authenticateToken(users, k, now)
                   ELSE requirePermission(withReqUser(users, k),
                                          authenticateToken(users, k, now).uid, p)
        /\ UNCHANGED <<users, registry, now, held, rnd, relogin, procs, resources, requests>>

VerifyEmail ==
    \E token \in UserIds :
        /\ Apply(verifyEmailOut(token))
        /\ UNCHANGED rnd

\* POST /register and POST /login of a client in C, through authRateLimit
LimitedRegister(C, E, P, R) ==
    \E c \in C, e \in E, p \in P, r \in R :
        /\ Len(users) < MaxUsers
        /\ Limited(c, registerOut(e, p, r))

LimitedLogin(C, E, P, RM) ==
    \E c \in C, e \in E, p \in P, rememberMe \in RM :
        Limited(c, loginOut(e, p, rememberMe))

\* time passes between requests
Tick(I) ==
    /\ \E t \in I : t > now /\ now' = t
    /\ UNCHANGED <<resources, requests, users, registry, held, resp, rnd, relogin, procs>>

----------------------------------------------------------------------------
(* Sessions: tokens, refresh rotation and password replacement for one      *)
(* account, with requests within one second of each other and in the next.  *)

Next ==
    \/ Register({"A@x.io"}, {"Secret123!"}, {NoRole})
    \/ Login({"a@x.io", "b@x.io"}, Passwords, {FALSE}, 0)
    \/ RefreshToken
    \/ Logout
    \/ ForgotPassword({"a@x.io", "b@x.io"})
    \/ ResetPassword({"Other456!"}, BOOLEAN)
    \/ ChangePassword(Passwords, BOOLEAN)
    \/ Authenticate
    \/ Tick({1500, 2000})

Spec == Init /\ [][Next]_vars

----------------------------------------------------------------------------
(* Login and lockout: one account, logins with right and wrong passwords    *)
(* and administration, over a span longer than the lock.                    *)

NextLogin ==
    \/ Register({"A@x.io"}, {"Secret123!"}, {NoRole, "admin"})
    \/ Login(Emails, Passwords, BOOLEAN, MaxAttempts)
    \/ UpdateUser({NoRole, "manager"}, ActiveArgs)
    \/ Tick(Instants)

SpecLogin == Init /\ [][NextLogin]_vars

----------------------------------------------------------------------------
(* Administration: two accounts, role changes and deactivation.             *)

NextAdmin ==
    \/ Register({"A@x.io", "b@x.io"}, {"Secret123!"}, {NoRole, "admin"})
    \/ Login({"a@x.io", "b@x.io"}, Passwords, {FALSE}, 0)
    \/ RefreshToken
    \/ UpdateUser({NoRole, "manager"}, ActiveArgs)
    \/ DeactivateUser
    \/ Authenticate

SpecAdmin == Init /\ [][NextAdmin]_vars

----------------------------------------------------------------------------
(* Password reset: two accounts, reset tokens issued, used, replaced and    *)
(* left to expire.                                                          *)

ResetInstants == {1500, 3601000, 3601500}

NextReset ==
    \/ Register({"A@x.io", "b@x.io"}, {"Secret123!"}, {NoRole})
    \/ ForgotPassword(Emails)
    \/ ResetPassword({"Other456!"}, {FALSE})
    \/ Tick(ResetInstants)

SpecReset == Init /\ [][NextReset]_vars

----------------------------------------------------------------------------
(* Roles: two accounts with changing roles, and the routes behind requireManager    *)
(* and requireAdmin.                                                        *)

NextRoles ==
    \/ Register({"A@x.io", "b@x.io"}, {"Secret123!"}, {NoRole, "admin"})
    \/ UpdateUser({"manager", "user"}, {"undefined", "false"})
    \/ UpdateProfile({"admin"}, {"undefined", "true"})
    \/ DeactivateUser

SpecRoles == Init /\ [][NextRoles]_vars

----------------------------------------------------------------------------
(* The auth gate: one account whose tokens grow old, whose password is      *)
(* replaced and which is deactivated, presented to authenticateToken and    *)
(* to optionalAuth.                                                         *)

GateInstants == {1500, 2000, 604802000}

NextGate ==
    \/ Register({"A@x.io"}, {"Secret123!"}, {"admin"})
    \/ Login({"a@x.io"}, {"Secret123!"}, {FALSE}, 0)
    \/ ChangePassword({"Secret123!"}, {FALSE})
    \/ UpdateUser({NoRole}, {"true", "false"})
    \/ Authenticate
    \/ OptionalAuth
    \/ Tick(GateInstants)

SpecGate == Init /\ [][NextGate]_vars

----------------------------------------------------------------------------
(* Ownership and permission middleware: users of the three assignable roles  *)
(* and a collection of resources created by and assigned to any of the ids. *)

ResourceDocs == [exists : {TRUE}, assignedToId : 0..MaxUsers, createdById : UserIds]

InitOwn ==
    /\ InitStore
    /\ resources \in [ResourceIds -> ResourceDocs \cup {NoResource}]

NextOwn ==
    \/ Register({"A@x.io"}, {"Secret123!"}, {NoRole, "admin", "manager"})
    \/ Register({"b@x.io"}, {"Secret123!"}, {NoRole})
    \/ AccessResource
    \/ RequirePermission

SpecOwn == InitOwn /\ [][NextOwn]_vars

----------------------------------------------------------------------------
(* Rate limiting: two clients registering and logging in through             *)
(* authRateLimit, at the start of a window, within it, at its reset time and *)
(* after it.                                                                 *)

LimitInstants == {1500, 901000, 901500}

NextLimit ==
    \/ LimitedRegister(Clients, {"A@x.io"}, {"Secret123!"}, {NoRole})
    \/ LimitedLogin(Clients, {"b@x.io"}, {"Secret123!"}, {FALSE})
    \/ Tick(LimitInstants)

SpecLimit == Init /\ [][NextLimit]_vars

----------------------------------------------------------------------------
(* Password and passwordChangedAt: one account through every operation of    *)
(* the controller, in the second of its registration and in the next one.    *)

PasswordInstants == {2000}

NextPassword ==
    \/ Register({"A@x.io"}, {"Secret123!"}, {NoRole})
    \/ Login({"a@x.io"}, Passwords, {FALSE}, 1)
    \/ RefreshToken
    \/ Logout
    \/ VerifyEmail
    \/ ForgotPassword({"a@x.io"})
    \/ ResetPassword({"Other456!"}, {FALSE})
    \/ ChangePassword(Passwords, {FALSE})
    \/ Tick(PasswordInstants)

SpecPassword == Init /\ [][NextPassword]_vars

----------------------------------------------------------------------------
(* The concurrent specification: a handler runs up to its next await, where *)
(* the other requests in flight may run.  procs[p] holds what the handler   *)
(* keeps in its local variables across the await.  The requests overlap     *)
(* within one instant of the clock.                                         *)

Procs == 1..MaxProcs

\* a new request takes the first free slot
FreeSlot(p) == procs[p].op = "idle" /\ \A q \in 1..(p - 1) : procs[q].op # "idle"

Begin(p, rec) ==
    /\ FreeSlot(p)
    /\ procs' = [procs EXCEPT ![p] = rec]
    /\ UNCHANGED <<resources, requests, users, registry, now, held, resp, rnd, relogin>>

\* the handler of p sends its response or forwards its error
Finish(p, res) ==
    /\ resp' = res
    /\ procs' = [procs EXCEPT ![p] = Idle]

Goto(p, rec) == procs' = [procs EXCEPT ![p] = rec]

At(p, op, pc) == procs[p].op = op /\ procs[p].pc = pc

\* the unique index on email: MongoServerError E11000 on a second document
uniqueEmailFree(us, email) == findOneByEmail(us, email) = 0

(* register *)
StartRegister(E, P, R) ==
    \E p \in Procs, e \in E, pw \in P, r \in R :
        /\ Len(users) < MaxUsers
        /\ Begin(p, [Locals EXCEPT !.op = "register", !.pc = "findOne", !.email = e,
                                 !.password = pw, !.roleArg = r])

RegisterFindOne ==
    \E p \in Procs :
        /\ At(p, "register", "findOne")
        /\ IF findOneByEmail(users, toLowerCase(procs[p].email)) # 0
           THEN Finish(p, Err("register", 409, "USER_EXISTS", 0))
           ELSE Goto(p, [procs[p] EXCEPT !.pc = "create"]) /\ UNCHANGED resp
        /\ UNCHANGED <<resources, requests, users, registry, now, held, rnd, relogin>>

RegisterCreate ==
    \E p \in Procs :
        /\ At(p, "register", "create")
        /\ IF ~uniqueEmailFree(users, toLowerCase(procs[p].email))
           THEN /\ Finish(p, errorHandler("register", "E11000", 0))
                /\ UNCHANGED users
           ELSE LET id == Len(users) + 1
                    user == newUser(procs[p].email, procs[p].password, procs[p].roleArg, now)
                IN /\ users' = Append(users, user)
                   /\ Goto(p, [procs[p] EXCEPT !.pc = "redisSet", !.id = id,
                                               !.toks = generateTokens(id, user, now)])
                   /\ UNCHANGED resp
        /\ UNCHANGED <<resources, requests, registry, now, held, rnd, relogin>>

RegisterRedisSet ==
    \E p \in Procs :
        /\ At(p, "register", "redisSet")
        /\ registry' = redisSet(registry, procs[p].id, procs[p].toks.refreshToken,
                                RegisterTtlSec, now)
        /\ held' = held \cup {[tok |-> procs[p].toks.accessToken, at |-> now],
                              [tok |-> procs[p].toks.refreshToken, at |-> now]}
        /\ relogin' = relogin \ {procs[p].id}
        /\ Finish(p, Res("register", 201, "OK", procs[p].id))
        /\ UNCHANGED <<resources, requests, users, now, rnd>>

(* login *)
StartLogin(E, P) ==
    \E p \in Procs, e \in E, pw \in P :
        Begin(p, [Locals EXCEPT !.op = "login", !.pc = "findByEmail", !.email = e,
                              !.password = pw])

\* findByEmail and the tests on the loaded document, up to the save
LoginFindByEmail(cap) ==
    \E p \in Procs :
        /\ At(p, "login", "findByEmail")
        /\ LET id == findByEmail(users, procs[p].email) IN
           IF id = 0
           THEN Finish(p, Err("login", 401, "INVALID_CREDENTIALS", 0))
           ELSE LET user == loadedForLogin(users[id]) IN
                IF ~user.isActive
                THEN Finish(p, Err("login", 401, "ACCOUNT_DEACTIVATED", id))
                ELSE IF ~comparePassword(procs[p].password, user.password)
                THEN /\ user.loginAttempts + 1 <= cap
                     /\ Goto(p, [procs[p] EXCEPT !.pc = "saveFailed", !.id = id,
                                                 !.attempts = user.loginAttempts + 1])
                     /\ UNCHANGED resp
                ELSE IF isLocked(user, now)
                THEN Finish(p, Err("login", 423, "ACCOUNT_LOCKED", id))
                ELSE /\ Goto(p, [procs[p] EXCEPT !.pc = "updateLastLogin", !.id = id,
                                                 !.role = user.role])
                     /\ UNCHANGED resp
        /\ UNCHANGED <<resources, requests, users, registry, now, held, rnd, relogin>>

\* user.save() of the wrong-password branch: writes the fields it modified
LoginSaveFailed ==
    \E p \in Procs :
        /\ At(p, "login", "saveFailed")
        /\ LET id == procs[p].id
               n == procs[p].attempts
           IN IF n >= LockThreshold
              THEN /\ users' = [users EXCEPT ![id].loginAttempts = n,
                                             ![id].lockUntil = now + LockMs]
                   /\ Finish(p, Err("login", 423, "ACCOUNT_LOCKED", id))
              ELSE /\ users' = [users EXCEPT ![id].loginAttempts = n]
                   /\ Finish(p, Err("login", 401, "INVALID_CREDENTIALS", id))
        /\ UNCHANGED <<resources, requests, registry, now, held, rnd, relogin>>

LoginUpdateLastLogin ==
    \E p \in Procs :
        /\ At(p, "login", "updateLastLogin")
        /\ LET id == procs[p].id IN
           /\ users' = [users EXCEPT ![id] = updateLastLogin(users[id], now)]
           /\ Goto(p, [procs[p] EXCEPT
                          !.pc = "redisSet",
                          !.toks = generateTokens(id, [users[id] EXCEPT !.role = procs[p].role],
                                                  now)])
        /\ UNCHANGED <<resources, requests, registry, now, held, resp, rnd, relogin>>

LoginRedisSet ==
    \E p \in Procs :
        /\ At(p, "login", "redisSet")
        /\ registry' = redisSet(registry, procs[p].id, procs[p].toks.refreshToken,
                                SessionTtlSec, now)
        /\ held' = held \cup {[tok |-> procs[p].toks.accessToken, at |-> now],
                              [tok |-> procs[p].toks.refreshToken, at |-> now]}
        /\ relogin' = relogin \ {procs[p].id}
        /\ Finish(p, Res("login", 200, "OK", procs[p].id))
        /\ UNCHANGED <<resources, requests, users, now, rnd>>

(* refreshToken *)
StartRefresh ==
    \E p \in Procs, k \in Presentable :
        Begin(p, [Locals EXCEPT !.op = "refresh", !.pc = "redisGet", !.tok = k])

RefreshRedisGet ==
    \E p \in Procs :
        /\ At(p, "refresh", "redisGet")
        /\ LET k == procs[p].tok IN
           IF k = NoToken
           THEN Finish(p, Err("refresh", 400, "REFRESH_TOKEN_REQUIRED", 0))
           ELSE IF jwtVerify(k, "refresh", now) # "ok"
           THEN Finish(p, errorHandler("refresh", jwtVerify(k, "refresh", now), 0))
           ELSE IF ~storedTokenMatches(registry, k, now)
           THEN Finish(p, Err("refresh", 401, "INVALID_REFRESH_TOKEN", k.userId))
           ELSE Goto(p, [procs[p] EXCEPT !.pc = "findById", !.id = k.userId])
                /\ UNCHANGED resp
        /\ UNCHANGED <<resources, requests, users, registry, now, held, rnd, relogin>>

RefreshFindById ==
    \E p \in Procs :
        /\ At(p, "refresh", "findById")
        /\ LET id == procs[p].id IN
           IF ~userExists(users, id) \/ ~users[id].isActive
           THEN Finish(p, Err("refresh", 401, "USER_NOT_FOUND", id))
           ELSE Goto(p, [procs[p] EXCEPT !.pc = "redisSet",
                                         !.toks = generateTokens(id, users[id], now)])
                /\ UNCHANGED resp
        /\ UNCHANGED <<resources, requests, users, registry, now, held, rnd, relogin>>

RefreshRedisSet ==
    \E p \in Procs :
        /\ At(p, "refresh", "redisSet")
        /\ registry' = redisSet(registry, procs[p].id, procs[p].toks.refreshToken,
                                RegisterTtlSec, now)
        /\ held' = held \cup {[tok |-> procs[p].toks.accessToken, at |-> now],
                              [tok |-> procs[p].toks.refreshToken, at |-> now]}
        /\ Finish(p, Res("refresh", 200, "OK", procs[p].id))
        /\ UNCHANGED <<resources, requests, users, now, rnd, relogin>>

(* changePassword *)
StartChangePassword(P, N) ==
    \E p \in Procs, k \in Presentable, cur \in P, new \in N :
        Begin(p, [Locals EXCEPT !.op = "changePassword", !.pc = "authenticateToken", !.tok = k,
                              !.password = cur, !.newPassword = new])

ChangePasswordAuthenticate ==
    \E p \in Procs :
        /\ At(p, "changePassword", "authenticateToken")
        /\ LET a == authenticateToken(users, procs[p].tok, now) IN
           IF a.status # 200
           THEN Finish(p, a)
           ELSE Goto(p, [procs[p] EXCEPT !.pc = "findById", !.id = a.uid]) /\ UNCHANGED resp
        /\ UNCHANGED <<resources, requests, users, registry, now, held, rnd, relogin>>

ChangePasswordFindById ==
    \E p \in Procs :
        /\ At(p, "changePassword", "findById")
        /\ IF ~comparePassword(procs[p].password, users[procs[p].id].password)
           THEN Finish(p, Err("changePassword", 400, "INCORRECT_CURRENT_PASSWORD", procs[p].id))
           ELSE Goto(p, [procs[p] EXCEPT !.pc = "save"]) /\ UNCHANGED resp
        /\ UNCHANGED <<resources, requests, users, registry, now, held, rnd, relogin>>

ChangePasswordSave ==
    \E p \in Procs :
        /\ At(p, "changePassword", "save")
        /\ users' = [users EXCEPT ![procs[p].id] =
                        savePassword(users[procs[p].id], procs[p].newPassword, now)]
        /\ Goto(p, [procs[p] EXCEPT !.pc = "redisDel"])
        /\ UNCHANGED <<resources, requests, registry, now, held, resp, rnd, relogin>>

ChangePasswordRedisDel ==
    \E p \in Procs :
        /\ At(p, "changePassword", "redisDel")
        /\ registry' = redisDel(registry, procs[p].id)
        /\ relogin' = relogin \cup {procs[p].id}
        /\ Finish(p, Res("changePassword", 200, "OK", procs[p].id))
        /\ UNCHANGED <<resources, requests, users, now, held, rnd>>

NextConc ==
    \/ StartRegister({"A@x.io", "a@x.io"}, {"Secret123!"}, {NoRole})
    \/ RegisterFindOne
    \/ RegisterCreate
    \/ RegisterRedisSet
    \/ StartLogin({"a@x.io"}, Passwords)
    \/ LoginFindByEmail(1)
    \/ LoginSaveFailed
    \/ LoginUpdateLastLogin
    \/ LoginRedisSet
    \/ StartRefresh
    \/ RefreshRedisGet
    \/ RefreshFindById
    \/ RefreshRedisSet
    \/ StartChangePassword({"Secret123!"}, {"Other456!"})
    \/ ChangePasswordAuthenticate
    \/ ChangePasswordFindById
    \/ ChangePasswordSave
    \/ ChangePasswordRedisDel

SpecConc == Init /\ [][NextConc]_vars

----------------------------------------------------------------------------
(* Concurrent refreshes: the steps of refreshToken interleaved, with the     *)
(* clock moving between them.                                                *)

RefreshInstants == {2000, 3000}

NextRefresh ==
    \/ Register({"A@x.io"}, {"Secret123!"}, {NoRole})
    \/ StartRefresh
    \/ RefreshRedisGet
    \/ RefreshFindById
    \/ RefreshRedisSet
    \/ Tick(RefreshInstants)

SpecRefresh == Init /\ [][NextRefresh]_vars


----------------------------------------------------------------------------
(* Properties *)

UserIx == 1..Len(users)
HeldTokens(typ, id) == {h \in held : h.tok.typ = typ /\ h.tok.userId = id}
Cased(i) == {e \in Emails : toLowerCase(e) = users[i].email}

\* the account is inside the 15 minutes that follow a fifth consecutive wrong password
InLockWindow(i) ==
    /\ users[i].loginAttempts >= LockThreshold
    /\ users[i].lockUntil # NoDate
    /\ users[i].lockUntil > now

\* C1: for an active user the fifth consecutive wrong-password login is rejected
\* with ACCOUNT_LOCKED (423), and so is every login during the following 15
\* minutes, the correct password included.
C1_LockedLoginsRejected ==
    \A i \in UserIx :
        users[i].isActive =>
            /\ (resp.op = "login" /\ resp.uid = i /\ resp.status # 200
                    /\ users[i].loginAttempts >= LockThreshold)
                  => (resp.status = 423 /\ resp.code = "ACCOUNT_LOCKED")
            /\ InLockWindow(i) =>
                  \A e \in Cased(i), p \in Passwords, rm \in BOOLEAN :
                      /\ loginOut(e, p, rm).res.status = 423
                      /\ loginOut(e, p, rm).res.code = "ACCOUNT_LOCKED"

\* C2: an access token signed at an instant before the user's current
\* passwordChangedAt is rejected by authenticateToken with PASSWORD_CHANGED (401).
C2_EarlierTokensRejected ==
    \A h \in held :
        (/\ h.tok.typ = "access"
         /\ userExists(users, h.tok.userId)
         /\ users[h.tok.userId].isActive
         /\ jwtVerify(h.tok, "access", now) = "ok"
         /\ h.at < users[h.tok.userId].passwordChangedAt)
        => /\ authenticateToken(users, h.tok, now).status = 401
           /\ authenticateToken(users, h.tok, now).code = "PASSWORD_CHANGED"

\* C3: once a refresh request has succeeded, the refresh token it was given is
\* no longer the one the registry accepts, however soon after the token was
\* signed the refresh took place.
C3_PresentedTokenRetired ==
    \A h \in held :
        (h.tok.typ = "refresh" /\ h.at < now /\ refreshTokenOut(h.tok).res.status = 200)
        => ~storedTokenMatches(refreshTokenOut(h.tok).registry, h.tok, now)

\* C4: once a changePassword request for u has completed successfully the
\* registry holds no refresh token for u until u logs in again, in every
\* interleaving with concurrent login and refresh requests.
C4_NoSessionUntilLogin ==
    \A i \in relogin : registry[i].token = NoToken

\* the password of i was replaced but its registry entry was not deleted, and
\* every token handed out for i dates from a second before the replacement
StaleSession(i) ==
    /\ i \in relogin
    /\ userExists(users, i)
    /\ users[i].isActive
    /\ registry[i].token # NoToken
    /\ \A h \in held : h.tok.userId = i => h.tok.iat < (users[i].passwordChangedAt \div 1000)

\* C5: when the new password is persisted but the registry entry is not
\* deleted, the holder of the earlier tokens cannot authenticate without a new
\* login: every access token held, or obtained by refreshing with the stale
\* refresh token, is rejected by authenticateToken.
C5_StaleSessionShutOut ==
    \A i \in UserIds :
        StaleSession(i) =>
            /\ \A h \in HeldTokens("access", i) :
                  authenticateToken(users, h.tok, now).status # 200
            /\ \A h \in HeldTokens("refresh", i) :
                  \A k \in refreshTokenOut(h.tok).tokens :
                      k.typ = "access" =>
                          authenticateToken(refreshTokenOut(h.tok).users, k, now).status # 200

\* C6: while isActive is false, authenticateToken rejects the user's unexpired
\* access tokens with ACCOUNT_DEACTIVATED (401), login is rejected with
\* ACCOUNT_DEACTIVATED (401) whatever the password, and refresh with the user's
\* stored refresh token is rejected with USER_NOT_FOUND (401); no refresh for
\* the user succeeds, issues tokens or writes the registry.
C6_InactiveNeverAuthenticates ==
    \A i \in UserIx :
        ~users[i].isActive =>
            /\ \A h \in HeldTokens("access", i) :
                  jwtVerify(h.tok, "access", now) = "ok" =>
                      /\ authenticateToken(users, h.tok, now).status = 401
                      /\ authenticateToken(users, h.tok, now).code = "ACCOUNT_DEACTIVATED"
            /\ \A e \in Cased(i), p \in Passwords, rm \in BOOLEAN :
                  /\ loginOut(e, p, rm).res.status = 401
                  /\ loginOut(e, p, rm).res.code = "ACCOUNT_DEACTIVATED"
                  /\ loginOut(e, p, rm).tokens = {}
                  /\ loginOut(e, p, rm).registry = registry
            /\ \A h \in HeldTokens("refresh", i) :
                  /\ refreshTokenOut(h.tok).res.status # 200
                  /\ refreshTokenOut(h.tok).tokens = {}
                  /\ refreshTokenOut(h.tok).registry = registry
                  /\ storedTokenMatches(registry, h.tok, now) =>
                        /\ refreshTokenOut(h.tok).res.status = 401
                        /\ refreshTokenOut(h.tok).res.code = "USER_NOT_FOUND"

\* a deactivated user's stored refresh token has been refused, with access tokens outstanding
C6_Witness ==
    \E i \in UserIx :
        /\ ~users[i].isActive
        /\ HeldTokens("access", i) # {}
        /\ \E h \in HeldTokens("refresh", i) : storedTokenMatches(registry, h.tok, now)
        /\ resp.op = "refresh" /\ resp.uid = i /\ resp.code = "USER_NOT_FOUND"

VerifiedRefresh == {k \in Presentable : k # NoToken /\ jwtVerify(k, "refresh", now) = "ok"}

\* C7: at most one refresh token per user is redeemable: refresh succeeds only
\* for the token stored in the registry under the token's user id, any other
\* verified refresh token fails with INVALID_REFRESH_TOKEN (401) and leaves the
\* registry unchanged, and every successful register, login and refresh leaves
\* the refresh token it returns as the user's single entry.
C7_SingleRedeemableToken ==
    /\ \A k \in VerifiedRefresh :
          /\ refreshTokenOut(k).res.status = 200 => registry[k.userId].token = k
          /\ registry[k.userId].token # k =>
                /\ refreshTokenOut(k).res.status = 401
                /\ refreshTokenOut(k).res.code = "INVALID_REFRESH_TOKEN"
                /\ refreshTokenOut(k).registry = registry
                /\ refreshTokenOut(k).tokens = {}
          /\ refreshTokenOut(k).res.status = 200 =>
                /\ refreshTokenOut(k).registry[k.userId].token \in refreshTokenOut(k).tokens
                /\ refreshTokenOut(k).registry[k.userId].token.typ = "refresh"
    /\ \A i \in UserIds :
          Cardinality({k \in VerifiedRefresh :
                          k.userId = i /\ refreshTokenOut(k).res.status = 200}) <= 1
    /\ \A e \in Emails, p \in Passwords :
          /\ loginOut(e, p, FALSE).res.status = 200 =>
                /\ loginOut(e, p, FALSE).registry[loginOut(e, p, FALSE).res.uid].token
                      \in loginOut(e, p, FALSE).tokens
                /\ loginOut(e, p, FALSE).registry[loginOut(e, p, FALSE).res.uid].token.typ
                      = "refresh"
          /\ (Len(users) < MaxUsers /\ registerOut(e, p, NoRole).res.status = 201) =>
                /\ registerOut(e, p, NoRole).registry[registerOut(e, p, NoRole).res.uid].token
                      \in registerOut(e, p, NoRole).tokens
                /\ registerOut(e, p, NoRole).registry[registerOut(e, p, NoRole).res.uid].token.typ
                      = "refresh"

\* a superseded refresh token has been refused while the current one is redeemable
C7_Witness ==
    /\ resp.op = "refresh" /\ resp.code = "INVALID_REFRESH_TOKEN"
    /\ \E k \in VerifiedRefresh :
          /\ k.userId = resp.uid
          /\ refreshTokenOut(k).res.status = 200
          /\ \E j \in VerifiedRefresh : j.userId = resp.uid /\ j # k

\* C8: for a registered user who is active and not locked, login with the
\* correct password succeeds and every token returned carries the user's id and
\* the role stored for the user at that time; a user registered without a role
\* gets role `user`.
C8_LoginSucceeds ==
    /\ \A i \in UserIx :
          (users[i].isActive /\ ~isLocked(users[i], now)) =>
              \A e \in Cased(i), p \in Passwords, rm \in BOOLEAN :
                  comparePassword(p, users[i].password) =>
                      /\ loginOut(e, p, rm).res.status = 200
                      /\ loginOut(e, p, rm).res.uid = i
                      /\ {k.typ : k \in loginOut(e, p, rm).tokens} = {"access", "refresh"}
                      /\ \A k \in loginOut(e, p, rm).tokens :
                            /\ k.userId = i
                            /\ k.role = users[i].role
                            /\ jwtVerify(k, k.typ, now) = "ok"
    /\ \A e \in Emails, p \in Passwords :
          (Len(users) < MaxUsers /\ registerOut(e, p, NoRole).res.status = 201) =>
              /\ registerOut(e, p, NoRole).users[registerOut(e, p, NoRole).res.uid].role = "user"
              /\ \A k \in registerOut(e, p, NoRole).tokens :
                    k.role = "user" /\ k.userId = registerOut(e, p, NoRole).res.uid

\* a user whose role was changed after registration has logged in and holds
\* tokens of the new role
C8_Witness ==
    /\ resp.op = "login" /\ resp.status = 200
    /\ users[resp.uid].role = "manager"
    /\ users[resp.uid].lastLoginAt = now
    /\ \E h \in HeldTokens("access", resp.uid) : h.tok.role = "manager" /\ h.at = now

\* C9: of register requests whose emails are equal ignoring case, concurrent
\* ones included, one creates the user and every other one fails with
\* USER_EXISTS (409); no two users share a lower-cased email.
C9_DuplicateIsUserExists ==
    /\ (resp.op = "register" /\ resp.status # 201) =>
          (resp.status = 409 /\ resp.code = "USER_EXISTS")
    /\ \A i, j \in UserIx : i # j => users[i].email # users[j].email

\* what the caller of forgotPassword sees of a response
callerVisible(res) == <<res.status, res.message>>

\* C10: forgotPassword answers alike, in status and body, for an email that
\* belongs to a user and for one that does not; a reset token is stored only
\* when the user exists.
C10_ForgotIndistinguishable ==
    /\ \A e1, e2 \in Emails :
          callerVisible(forgotPasswordOut(e1).res) = callerVisible(forgotPasswordOut(e2).res)
    /\ \A e \in Emails :
          findOneByEmail(users, toLowerCase(e)) = 0 => forgotPasswordOut(e).users = users

C12_LogoutIdempotent ==
    \A k \in Presentable, r \in Presentable \ {NoToken} :
        authenticateToken(users, k, now).status = 200 =>
            LET first  == logoutOut(k, r)
                second == logout(first.users, first.registry, first.relogin, k, r, now)
            IN /\ first.res.status = 200 /\ first.res.sent = 1
               /\ first.registry[k.userId].token = NoToken
               /\ second.res.status = 200 /\ second.res.sent = 1
               /\ second.registry = first.registry
               /\ second.users = first.users
               /\ first.users = users

\* a logout has been answered with the user's entry gone from the registry,
\* so that a repeated logout with the tokens held finds nothing to delete
C12_Witness ==
    /\ resp.op = "logout" /\ resp.status = 200
    /\ registry[resp.uid].token = NoToken
    /\ \E k \in Presentable : k.userId = resp.uid /\ authenticateToken(users, k, now).status = 200
    /\ HeldTokens("refresh", resp.uid) # {}

\* a stored user of role r, as the userSchema admits it
userOfRole(r) == [newUser("a@x.io", "Secret123!", NoRole, now) EXCEPT !.role = r]

\* C13: requireRole(roles) calls next() exactly when the role of the user
\* attached to the request is in roles and otherwise rejects with
\* INSUFFICIENT_PERMISSIONS (403); requireManager admits admin and manager and
\* rejects user and guest, requireAdmin admits admin only; with no user
\* attached the request is rejected with AUTHENTICATION_REQUIRED (401).
C13_RoleGate ==
    /\ \A roles \in SUBSET Roles :
          /\ requireRoleMiddleware(users, 0, roles).status = 401
          /\ requireRoleMiddleware(users, 0, roles).code = "AUTHENTICATION_REQUIRED"
          /\ \A i \in UserIx :
                IF users[i].role \in roles
                THEN requireRoleMiddleware(users, i, roles).status = 200
                ELSE /\ requireRoleMiddleware(users, i, roles).status = 403
                     /\ requireRoleMiddleware(users, i, roles).code = "INSUFFICIENT_PERMISSIONS"
          /\ \A r \in Roles :
                IF r \in roles
                THEN requireRoleMiddleware(<<userOfRole(r)>>, 1, roles).status = 200
                ELSE /\ requireRoleMiddleware(<<userOfRole(r)>>, 1, roles).status = 403
                     /\ requireRoleMiddleware(<<userOfRole(r)>>, 1, roles).code
                           = "INSUFFICIENT_PERMISSIONS"
    /\ \A r \in Roles :
          /\ requireRoleMiddleware(<<userOfRole(r)>>, 1, requireManager).status
                = IF r \in {"admin", "manager"} THEN 200 ELSE 403
          /\ requireRoleMiddleware(<<userOfRole(r)>>, 1, requireAdmin).status
                = IF r = "admin" THEN 200 ELSE 403
    /\ (resp.op \in {"updateUser", "deactivateUser"} /\ resp.code = "INSUFFICIENT_PERMISSIONS") =>
          /\ resp.status = 403
          /\ resp.op = "updateUser" => users[resp.uid].role \in {"user", "guest"}
          /\ resp.op = "deactivateUser" => users[resp.uid].role \in {"manager", "user", "guest"}
    /\ (resp.op = "deactivateUser" /\ resp.status = 200) =>
          \E i \in UserIx : users[i].role = "admin"

\* a user has been refused by requireManager while a manager is registered,
\* who passes it and is refused by requireAdmin
C13_Witness ==
    /\ resp.op = "updateUser" /\ resp.code = "INSUFFICIENT_PERMISSIONS"
    /\ users[resp.uid].role = "user"
    /\ \E i \in UserIx :
          /\ users[i].role = "manager"
          /\ requireRoleMiddleware(users, i, requireManager).status = 200
          /\ requireRoleMiddleware(users, i, requireAdmin).status = 403

\* the outcome o differs from the present state in some user's role or isActive
ChangesRoleOrActive(o) ==
    \E i \in UserIx : o.users[i].role # users[i].role \/ o.users[i].isActive # users[i].isActive

\* the role stored for the user whom token k names
CallerRole(k) == IF userExists(users, k.userId) THEN users[k.userId].role ELSE "none"

\* C14: a request changes the role or isActive of an existing user only if
\* its authenticated caller has role admin: no register, login,
\* profile-update or user-management request by a manager, user or guest
\* changes them.
C14_OnlyAdminChangesRole ==
    /\ \A k \in Presentable, target \in UserIds, r \in RoleArgs \cup {"user"}, a \in ActiveArgs :
          /\ ChangesRoleOrActive(updateUserOut(k, target, r, a)) => CallerRole(k) = "admin"
          /\ ChangesRoleOrActive(deactivateUserOut(k, target)) => CallerRole(k) = "admin"
          /\ ~ChangesRoleOrActive(updateProfileOut(k, r, a))
    /\ \A e \in Emails, p \in Passwords, r \in RoleArgs :
          /\ ~ChangesRoleOrActive(loginOut(e, p, FALSE))
          /\ Len(users) < MaxUsers => ~ChangesRoleOrActive(registerOut(e, p, r))

\* C15: authenticateToken rejects a correctly signed, expired access token
\* with TOKEN_EXPIRED (401) and a token whose signature or structure is
\* invalid with INVALID_TOKEN (401).
C15_ExpiredAndInvalidTold ==
    \A k \in Presentable \ {NoToken} :
        /\ (k.typ = "access" /\ (now \div 1000) >= k.exp) =>
              /\ authenticateToken(users, k, now).status = 401
              /\ authenticateToken(users, k, now).code = "TOKEN_EXPIRED"
        /\ k.typ # "access" =>
              /\ authenticateToken(users, k, now).status = 401
              /\ authenticateToken(users, k, now).code = "INVALID_TOKEN"

\* C16: optionalAuth attaches an identity to a request exactly when
\* authenticateToken accepts the request, and then the same identity.
C16_OptionalAuthSameChecks ==
    \A k \in Presentable :
        /\ optionalAuth(users, k, now) # 0 <=> authenticateToken(users, k, now).status = 200
        /\ optionalAuth(users, k, now) # 0 =>
              optionalAuth(users, k, now) = authenticateToken(users, k, now).uid

\* the checks of the auth gate, each from the request and the stored user
TokenPresent(k) == k # NoToken
SignatureValid(k) == k.typ = "access" /\ (now \div 1000) < k.exp
UserLoaded(k) == k.userId \in UserIx
AccountActive(k) == users[k.userId].isActive
PasswordEpochValid(k) ==
    \/ users[k.userId].passwordChangedAt = NoDate
    \/ k.iat >= users[k.userId].passwordChangedAt \div 1000

\* C20: an authenticateToken run ends either Authenticated (next() without
\* an error, the token's user attached) or Rejected (an error forwarded), and
\* the rejection names the first failing check in the order token present,
\* signature valid, user exists, account active, password epoch valid: a
\* deactivated user whose password changed after the token was issued gets
\* ACCOUNT_DEACTIVATED.  A record of status 200 stands for the request with
\* its user attached; a rejection's uid only names whom it is about.
C20_FirstFailingCheck ==
    \A k \in Presentable :
        LET r == authenticateToken(users, k, now) IN
        /\ (r.status = 200 /\ r.forwarded = 0) \/ (r.status = 401 /\ r.forwarded = 1)
        /\ r.status = 200 => r.uid = k.userId
        /\ IF ~TokenPresent(k) THEN r.code = "UNAUTHORIZED"
           ELSE IF ~SignatureValid(k) THEN r.code \in {"INVALID_TOKEN", "TOKEN_EXPIRED"}
           ELSE IF ~UserLoaded(k) THEN r.code = "USER_NOT_FOUND"
           ELSE IF ~AccountActive(k) THEN r.code = "ACCOUNT_DEACTIVATED"
           ELSE IF ~PasswordEpochValid(k) THEN r.code = "PASSWORD_CHANGED"
           ELSE r.status = 200

\* the token of a deactivated user, issued before the user's password was
\* replaced, has been rejected with ACCOUNT_DEACTIVATED
C20_Witness ==
    /\ resp.op = "auth" /\ resp.code = "ACCOUNT_DEACTIVATED"
    /\ \E k \in Presentable :
          /\ TokenPresent(k) /\ SignatureValid(k) /\ UserLoaded(k)
          /\ k.userId = resp.uid
          /\ ~AccountActive(k)
          /\ ~PasswordEpochValid(k)
          /\ authenticateToken(users, k, now).code = "ACCOUNT_DEACTIVATED"

\* C17: a login while lockUntil is set and ahead is rejected with
\* ACCOUNT_LOCKED (423) whether the password is right or wrong, and leaves
\* loginAttempts and lockUntil as they were.
C17_LockedLoginChangesNothing ==
    \A i \in UserIx :
        (users[i].isActive /\ InLockWindow(i)) =>
            \A e \in Cased(i), p \in Passwords, rm \in BOOLEAN :
                /\ loginOut(e, p, rm).res.status = 423
                /\ loginOut(e, p, rm).res.code = "ACCOUNT_LOCKED"
                /\ loginOut(e, p, rm).users[i].loginAttempts = users[i].loginAttempts
                /\ loginOut(e, p, rm).users[i].lockUntil = users[i].lockUntil

\* C18: a wrong-password login of an existing, active, unlocked user stores
\* loginAttempts + 1 and changes nothing else but the lock: below 5 it is
\* rejected with INVALID_CREDENTIALS (401) and lockUntil stays unset, from 5
\* on with ACCOUNT_LOCKED (423) and lockUntil = now + 15 minutes.
C18_FailedLoginCounts ==
    \A i \in UserIx :
        (users[i].isActive /\ ~isLocked(users[i], now)) =>
            \A e \in Cased(i), p \in Passwords, rm \in BOOLEAN :
                ~comparePassword(p, users[i].password) =>
                    LET o == loginOut(e, p, rm)
                        n == users[i].loginAttempts + 1
                    IN /\ o.users[i].loginAttempts = n
                       /\ o.users = [users EXCEPT ![i].loginAttempts = n,
                                                  ![i].lockUntil = o.users[i].lockUntil]
                       /\ o.registry = registry /\ o.tokens = {}
                       /\ n < 5 => /\ o.res.status = 401
                                   /\ o.res.code = "INVALID_CREDENTIALS"
                                   /\ o.users[i].lockUntil = NoDate
                       /\ n >= 5 => /\ o.res.status = 423
                                    /\ o.res.code = "ACCOUNT_LOCKED"
                                    /\ o.users[i].lockUntil = now + 900000

\* the fifth wrong password in a row has been answered ACCOUNT_LOCKED and
\* has locked the account for 15 minutes from the time of that request
C18_Witness ==
    /\ resp.op = "login" /\ resp.code = "ACCOUNT_LOCKED"
    /\ users[resp.uid].loginAttempts = 5
    /\ users[resp.uid].lockUntil = now + 900000
    /\ now > 1000

\* C19: a successful login stores loginAttempts = 0, no lockUntil and
\* lastLoginAt = the time of the login, and the registry entry of the user is
\* the refresh token that the login returns.
C19_SuccessfulLoginResets ==
    /\ \A e \in Emails, p \in Passwords, rm \in BOOLEAN :
          LET o == loginOut(e, p, rm) IN
          o.res.status = 200 =>
              /\ o.res.uid \in UserIx
              /\ o.users[o.res.uid].loginAttempts = 0
              /\ o.users[o.res.uid].lockUntil = NoDate
              /\ o.users[o.res.uid].lastLoginAt = now
              /\ o.registry[o.res.uid].token.typ = "refresh"
              /\ o.registry[o.res.uid].token \in o.tokens
              /\ redisGet(o.registry, o.res.uid, now) = o.registry[o.res.uid].token
              /\ Cardinality({k \in o.tokens : k.typ = "refresh"}) = 1
    /\ (resp.op = "login" /\ resp.status = 200) =>
          /\ users[resp.uid].loginAttempts = 0
          /\ users[resp.uid].lockUntil = NoDate
          /\ users[resp.uid].lastLoginAt # NoDate
          /\ \E h \in HeldTokens("refresh", resp.uid) :
                h.tok = registry[resp.uid].token /\ h.at = users[resp.uid].lastLoginAt

\* a locked account with failed attempts on record is about to be logged
\* into, after a login of the same account has succeeded before
C19_Witness ==
    \E i \in UserIx :
        /\ users[i].loginAttempts > 0
        /\ users[i].lockUntil # NoDate
        /\ users[i].lastLoginAt # NoDate
        /\ \E e \in Emails, p \in Passwords : loginOut(e, p, FALSE).res.status = 200

\* C21: requireResourceOwnership, for an authenticated caller and a resource
\* id: a missing resource gives RESOURCE_NOT_FOUND (404), to an admin too; for
\* an existing resource an admin passes, a non-admin passes exactly when its
\* id equals the assignee if there is one and else the creator; every other
\* case gives INSUFFICIENT_PERMISSIONS (403); the resource is attached to the
\* request only when access is granted.
C21_OwnershipDecision ==
    \A i \in UserIx, rid \in 1..(MaxResources + 1) :
        LET r == requireResourceOwnership(users, resources, i, rid)
            missing == rid \notin ResourceIds \/ ~resources[rid].exists
        IN /\ missing => r.res.status = 404 /\ r.res.code = "RESOURCE_NOT_FOUND"
           /\ (~missing /\ users[i].role = "admin") => r.res.status = 200
           /\ (~missing /\ users[i].role # "admin") =>
                 /\ r.res.status = 200 <=>
                       IF resources[rid].assignedToId # 0
                       THEN resources[rid].assignedToId = i
                       ELSE resources[rid].createdById = i
                 /\ r.res.status # 200 =>
                       r.res.status = 403 /\ r.res.code = "INSUFFICIENT_PERMISSIONS"
           /\ r.resource = IF r.res.status = 200 THEN rid ELSE 0
           /\ r.res.status = 200 <=> r.res.forwarded = 0

\* a user who created a resource assigned to somebody else has been refused
\* one, while an admin is registered who owns none
C21_Witness ==
    /\ resp.op = "ownership" /\ resp.code = "INSUFFICIENT_PERMISSIONS"
    /\ users[resp.uid].role # "admin"
    /\ \A r \in ResourceIds :
          /\ resources[r].exists
          /\ resources[r].createdById = resp.uid
          /\ resources[r].assignedToId \notin {0, resp.uid}
    /\ \E i \in UserIx : users[i].role = "admin"

\* the permissions hasPermission grants to a role
Granted(role) == {p \in Permissions : hasPermission(role, p)}

\* C22: hasPermission grants every permission to admin, read and write to
\* manager, read to user and nothing to guest or any other role; the granted
\* sets are nested, guest within user within manager within admin; and
\* requirePermission rejects with INSUFFICIENT_PERMISSIONS (403) exactly when
\* hasPermission is false for the role of the user attached to the request.
C22_PermissionGrants ==
    /\ Granted("admin") = Permissions
    /\ Granted("manager") = {"read", "write"}
    /\ Granted("user") = {"read"}
    /\ \A r \in {"guest", "owner", ""} : Granted(r) = {}
    /\ Granted("guest") \subseteq Granted("user")
    /\ Granted("user") \subseteq Granted("manager")
    /\ Granted("manager") \subseteq Granted("admin")
    /\ \A p \in Permissions :
          /\ \A i \in UserIx :
                /\ requirePermission(users, i, p).status = 403
                      <=> ~hasPermission(users[i].role, p)
                /\ requirePermission(users, i, p).code = "INSUFFICIENT_PERMISSIONS"
                      <=> ~hasPermission(users[i].role, p)
                /\ requirePermission(users, i, p).status = 200
                      <=> hasPermission(users[i].role, p)
          /\ \A r \in Roles :
                requirePermission(<<userOfRole(r)>>, 1, p).status
                    = IF p \in Granted(r) THEN 200 ELSE 403
    /\ (resp.op = "requirePermission" /\ resp.code = "INSUFFICIENT_PERMISSIONS") =>
          /\ resp.status = 403
          /\ resp.message \notin Granted(users[resp.uid].role)

\* a user has been refused the write permission while a manager is registered
C22_Witness ==
    /\ resp.op = "requirePermission" /\ resp.code = "INSUFFICIENT_PERMISSIONS"
    /\ resp.message = "write"
    /\ users[resp.uid].role = "user"
    /\ \E i \in UserIx : users[i].role = "manager"

\* the entry of client c that counts at time t: none once its window is over
inWindow(reqs, c, t) ==
    IF reqs[c] # NoWindow /\ t <= reqs[c].resetTime THEN reqs[c] ELSE NoWindow

\* C23: for every client and every window of the rate limiter the first
\* maxRequests requests up to the window's reset time are passed on and every
\* further one gets 429 RATE_LIMIT_EXCEEDED: the count of an entry is the
\* number of requests passed in its window, it never exceeds maxRequests, a
\* request is rejected exactly when the count of the running window has
\* reached maxRequests, a passed request adds one to its client's count, a
\* rejected request changes the count of no running window, and a request
\* changes the running window of no other client.
C23_WindowCeiling ==
    \A c \in Clients :
        LET o == authRateLimit(requests, c, now)
            e == inWindow(requests, c, now)
        IN /\ requests[c] # NoWindow => requests[c].count \in 1..AuthMaxRequests
           /\ o.res.status = 429 <=> e.count = AuthMaxRequests
           /\ o.res.status = 429 =>
                 /\ o.res.code = "RATE_LIMIT_EXCEEDED"
                 /\ \A d \in Clients : inWindow(o.requests, d, now) = inWindow(requests, d, now)
           /\ o.res.status # 429 =>
                 /\ o.res.status = 200
                 /\ o.requests[c].count = e.count + 1
                 /\ o.requests[c].resetTime
                       = IF e = NoWindow THEN now + AuthWindowMs ELSE e.resetTime
           /\ \A d \in Clients \ {c} :
                 inWindow(o.requests, d, now) = inWindow(requests, d, now)

\* one client has been rejected at the reset time of its window, which is
\* full, while the other client's window has room
C23_Witness ==
    /\ resp.op = "rateLimit" /\ resp.status = 429
    /\ \E c \in Clients :
          /\ requests[c].count = AuthMaxRequests /\ requests[c].resetTime = now
          /\ \E d \in Clients \ {c} : requests[d].count \in 1..(AuthMaxRequests - 1)

\* the retry-after of a rejection is the rounded-up number of seconds to the
\* reset time, not negative and not more than the window
retryAfterInRange(c) ==
    LET o == authRateLimit(requests, c, now)
    IN o.res.status = 429 =>
          /\ o.res.retryAfter * 1000 >= requests[c].resetTime - now
          /\ (o.res.retryAfter - 1) * 1000 < requests[c].resetTime - now
          /\ o.res.retryAfter >= 0
          /\ o.res.retryAfter <= ceilSeconds(AuthWindowMs)

\* C28: the retry-after value of a 429 response equals
\* ceil((resetTime - now) / 1000), is never negative, never exceeds
\* ceil(windowMs / 1000), and is sufficient: the client's next request,
\* arriving exactly retry-after seconds after the rejected one, is passed on.
C28_RetryAfterSufficient ==
    \A c \in Clients :
        LET o == authRateLimit(requests, c, now)
        IN /\ retryAfterInRange(c)
           /\ o.res.status = 429 =>
                 authRateLimit(o.requests, c, now + o.res.retryAfter * 1000).res.status = 200

\* C28, the part the limiter keeps: value and range of retry-after
C28_RetryAfterRange == \A c \in Clients : retryAfterInRange(c)

\* C24: after a logout that supplies a refresh token the registry has no
\* entry for the authenticated user, and every refresh token issued to that
\* user earlier is rejected by refresh with INVALID_REFRESH_TOKEN; a logout
\* that supplies no refresh token leaves the registry unchanged.
C24_LogoutRetiresRefreshTokens ==
    \A k \in Presentable :
        authenticateToken(users, k, now).status = 200 =>
            /\ \A r \in Presentable \ {NoToken} :
                  LET after == logoutOut(k, r)
                  IN /\ after.res.status = 200
                     /\ after.registry[k.userId] = NoEntry
                     /\ \A j \in UserIx \ {k.userId} : after.registry[j] = registry[j]
                     /\ \A h \in HeldTokens("refresh", k.userId) :
                           LET again == refreshTokenIn(after.users, after.registry,
                                                       after.relogin, h.tok, now)
                           IN /\ again.res.status = 401
                              /\ again.res.code = "INVALID_REFRESH_TOKEN"
                              /\ again.tokens = {}
            /\ logoutOut(k, NoToken).res.status = 200
            /\ logoutOut(k, NoToken).registry = registry

\* a logout has emptied the user's entry and a refresh with a refresh token
\* issued to the user before it has then been rejected
C24_Witness ==
    /\ resp.op = "refresh" /\ resp.code = "INVALID_REFRESH_TOKEN"
    /\ registry[resp.uid] = NoEntry
    /\ HeldTokens("refresh", resp.uid) # {}
    /\ \E k \in Presentable :
          /\ k.userId = resp.uid
          /\ authenticateToken(users, k, now).status = 200
          /\ logoutOut(k, NoToken).registry = registry

\* C25: a refresh token is redeemable at most once, also under concurrency:
\* of two refresh requests presenting the same valid refresh token at most one
\* succeeds, so a request that has passed the registry test and is about to
\* store and return its new tokens presents the token that is still stored.
C25_RedeemedOnce ==
    \A q \in Procs :
        At(q, "refresh", "redisSet") => storedTokenMatches(registry, procs[q].tok, now)

\* C26: authorization uses the role stored for the user, not the role claim
\* of the access token: for every access token that authenticates, also one
\* issued before the user's role was changed, requireRole and
\* requirePermission decide by the stored role, and so do the routes behind
\* requireManager and requireAdmin.
C26_StoredRoleDecides ==
    \A k \in Presentable :
        authenticateToken(users, k, now).status = 200 =>
            /\ \A roles \in SUBSET Roles :
                  requireRoleMiddleware(withReqUser(users, k), k.userId, roles).status
                      = IF users[k.userId].role \in roles THEN 200 ELSE 403
            /\ \A p \in Permissions :
                  requirePermission(withReqUser(users, k), k.userId, p).status
                      = IF hasPermission(users[k.userId].role, p) THEN 200 ELSE 403
            /\ \A target \in UserIds :
                  /\ updateUserOut(k, target, "manager", "undefined").res.code
                          = "INSUFFICIENT_PERMISSIONS"
                        <=> users[k.userId].role \notin {"admin", "manager"}
                  /\ deactivateUserOut(k, target).res.code = "INSUFFICIENT_PERMISSIONS"
                        <=> users[k.userId].role # "admin"

\* a user registered as admin and since made a plain user has been refused by
\* requireManager with the access token that still carries the admin claim
C26_Witness ==
    /\ resp.op = "updateUser" /\ resp.code = "INSUFFICIENT_PERMISSIONS"
    /\ users[resp.uid].role = "user"
    /\ \A h \in HeldTokens("access", resp.uid) : h.tok.role = "admin"
    /\ \E h \in HeldTokens("access", resp.uid) :
          authenticateToken(users, h.tok, now).status = 200

ControllerOps == {"register", "login", "refresh", "logout", "forgot", "reset", "changePassword"}

\* C29: every request handled by an AuthController operation ends in exactly
\* one outcome: either one response is sent or one error is forwarded to the
\* error handler, never both and never neither.
C29_ExactlyOneOutcome ==
    resp.op \in ControllerOps => resp.sent + resp.forwarded = 1

\* C29 for the operations other than forgotPassword
C29_OthersOneOutcome ==
    resp.op \in ControllerOps \ {"forgot"} => resp.sent + resp.forwarded = 1

\* the handler outcome o leaves the password hash and passwordChangedAt of
\* every user, and rejects no token with PASSWORD_CHANGED that was not
\* rejected so before
passwordKept(o) ==
    /\ Len(o.users) = Len(users)
    /\ \A i \in UserIx :
          /\ o.users[i].password = users[i].password
          /\ o.users[i].passwordChangedAt = users[i].passwordChangedAt
    /\ \A k \in Presentable :
          authenticateToken(o.users, k, now).code = "PASSWORD_CHANGED" =>
              authenticateToken(users, k, now).code = "PASSWORD_CHANGED"

====
